---- MODULE Spec2Model ----
(***************************************************************************)
(* News API (main.py, schemas.py): request handlers over a document store. *)
(* Collections are sequences of documents in insertion order; a document   *)
(* is a function from field names to values.  Titles and slugs are         *)
(* sequences of one-character strings, so that slug derivation is computed *)
(* character by character as str.lower / str.split / str.join compute it.  *)
(***************************************************************************)
EXTENDS Integers, Sequences, FiniteSets, TLC

\* ------------------------------------------------------------------ bounds
NProcs == 2
MaxArticles == 2
MaxComments == 3
MaxTitleLen == 4
MaxLimit == 2

\* limit: int = 20 in list_articles
DefaultLimit == 20

VARIABLES category, author, article, comment,
          pc, idx, seen, seeded, completed, response

vars == <<category, author, article, comment,
          pc, idx, seen, seeded, completed, response>>

Procs == 1..NProcs

\* Python's None (field values of the model are strings, never this one).
None == "<None>"

\* -------------------------------------------------------------- str methods
Whitespace == {" "}
Alphabet == {"H", "i", " "}

LowerChar(c) == IF c = "H" THEN "h" ELSE c

\* str.lower()
lower(s) == [k \in 1..Len(s) |-> LowerChar(s[k])]

RECURSIVE SplitFrom(_, _, _, _)
SplitFrom(s, k, cur, words) ==
    IF k > Len(s)
    THEN (IF cur = <<>> THEN words ELSE Append(words, cur))
    ELSE IF s[k] \in Whitespace
         THEN SplitFrom(s, k + 1, <<>>,
                        IF cur = <<>> THEN words ELSE Append(words, cur))
         ELSE SplitFrom(s, k + 1, Append(cur, s[k]), words)

\* str.split() without a separator: the maximal runs of non-whitespace
split(s) == SplitFrom(s, 1, <<>>, <<>>)

RECURSIVE join(_, _)
\* sep.join(words)
join(sep, words) ==
    IF words = <<>> THEN <<>>
    ELSE IF Len(words) = 1 THEN words[1]
    ELSE words[1] \o <<sep>> \o join(sep, Tail(words))

\* "-".join(payload.title.lower().split()) with the words kept apart by sep
slug_joined_by(sep, title) == join(sep, split(lower(title)))

Slugify_underscore(title) == slug_joined_by("_", title)

\* slug = "-".join(payload.title.lower().split())
Slugify(title) == slug_joined_by("-", title)

\* -------------------------------------------------------- document store
Min(a, b) == IF a < b THEN a ELSE b

Take(s, n) == IF n <= 0 THEN <<>> ELSE SubSeq(s, 1, Min(n, Len(s)))

\* a document matches a filter when it carries every key of the filter with
\* the filter's value
Matches(doc, filter_dict) ==
    \A k \in DOMAIN filter_dict : k \in DOMAIN doc /\ doc[k] = filter_dict[k]

RECURSIVE find(_, _)
\* find(collection, filter): the matching documents in the store's order
find(coll, filter_dict) ==
    IF coll = <<>> THEN <<>>
    ELSE (IF Matches(Head(coll), filter_dict) THEN <<Head(coll)>> ELSE <<>>)
         \o find(Tail(coll), filter_dict)

\* get_documents(collection, filter, limit): find, truncated to limit
get_documents(coll, filter_dict, limit) == Take(find(coll, filter_dict), limit)

\* create_document(collection, data): appends the document under a fresh _id
create_document(coll, data) == Append(coll, data @@ [_id |-> Len(coll) + 1])

\* {k: v for k, v in item.items() if k != "_id"}
StripId(item) == [k \in DOMAIN item \ {"_id"} |-> item[k]]

\* ---------------------------------------------------------------- schemas
\* HttpUrl: the strings that parse as an http(s) URL
UrlStrings == {"https://example.com/a.png"}
IsHttpUrl(s) == s \in UrlStrings

ArticleDefaults ==
    [cover_image |-> None, published |-> TRUE, view_count |-> 0]

CommentDefaults == [likes |-> 0]

ArticleRequired == {"title", "slug", "category"}
CommentRequired == {"article_slug", "name", "message"}

\* Model(**fields): the declared fields, a default where the field is absent
WithDefaults(fields, defaults, required) ==
    [k \in required \cup DOMAIN defaults |->
        IF k \in DOMAIN fields THEN fields[k] ELSE defaults[k]]

\* cover_image: Optional[HttpUrl]
cover_image_ok(v) == v = None \/ IsHttpUrl(v)

\* Article(**fields) raises ValidationError unless this holds
ArticleValid(fields) ==
    /\ ArticleRequired \subseteq DOMAIN fields
    /\ "cover_image" \in DOMAIN fields => cover_image_ok(fields.cover_image)

Article(fields) == WithDefaults(fields, ArticleDefaults, ArticleRequired)

\* Comment(**fields) raises ValidationError unless this holds
CommentValid(fields) == CommentRequired \subseteq DOMAIN fields

Comment(fields) == WithDefaults(fields, CommentDefaults, CommentRequired)

\* ArticleCreate: title is a required str, cover_image an Optional[str]
ArticleCreateValid(payload) == "title" \in DOMAIN payload /\ "category" \in DOMAIN payload

\* payload.model_dump(): the declared fields, cover_image defaulting to None
ArticleCreateDump(payload) ==
    [k \in {"title", "category", "cover_image"} |->
        IF k \in DOMAIN payload THEN payload[k] ELSE None]

CommentCreateValid_nonempty(payload) ==
    CommentRequired \subseteq DOMAIN payload /\ payload.message # ""

\* CommentCreate: article_slug, name, message are required str
CommentCreateValid(payload) == CommentRequired \subseteq DOMAIN payload

CommentCreateDump(payload) == [k \in CommentRequired |-> payload[k]]

\* ------------------------------------------------------- bootstrap defaults
\* defaults = [...] of bootstrap_defaults
DefaultCategories ==
    << [name |-> "Top Stories", slug |-> "top-stories"],
       [name |-> "Technology", slug |-> "technology"],
       [name |-> "Business", slug |-> "business"],
       [name |-> "Sports", slug |-> "sports"],
       [name |-> "World", slug |-> "world"] >>

DefaultAuthor ==
    [name |-> "Staff Reporter", bio |-> "Newsroom", avatar_url |-> None]

SampleTitle ==
    <<"W", "e", "l", "c", "o", "m", "e", " ", "t", "o", " ", "Y", "o", "u", "r", " ", "N", "e", "w", "s", " ", "S", "i", "t", "e">>

SampleSlug ==
    <<"w", "e", "l", "c", "o", "m", "e", "-", "t", "o", "-", "y", "o", "u", "r", "-", "n", "e", "w", "s", "-", "s", "i", "t", "e">>

SampleArticle ==
    [title |-> SampleTitle, slug |-> SampleSlug, category |-> "top-stories",
     cover_image |-> None, published |-> TRUE, view_count |-> 0]

\* what a bootstrap call seeds into each group when it finds the group empty
NDefaults(g) == IF g = "category" THEN Len(DefaultCategories) ELSE 1

Groups == {"category", "author", "article"}

NoResponse == [op |-> "none", arg |-> None, status |-> 0, body |-> <<>>]

Unchecked == [g \in Groups |-> "unchecked"]
NoneSeeded == [g \in Groups |-> 0]

EmptyStore ==
    /\ category = <<>>
    /\ author = <<>>
    /\ article = <<>>
    /\ comment = <<>>

Idle ==
    /\ pc = [p \in Procs |-> "idle"]
    /\ idx = [p \in Procs |-> 0]
    /\ seen = [p \in Procs |-> Unchecked]
    /\ seeded = [p \in Procs |-> NoneSeeded]
    /\ completed = 0
    /\ response = NoResponse

Init == EmptyStore /\ Idle

Emptiness(coll) == IF coll = <<>> THEN "empty" ELSE "nonempty"

\* ---------------------------------------------------------------- bootstrap
\* POST /api/bootstrap is accepted; db is configured
bootstrap_defaults(p) ==
    /\ pc[p] = "idle"
    /\ pc' = [pc EXCEPT ![p] = "cat_find"]
    /\ seen' = [seen EXCEPT ![p] = Unchecked]
    /\ seeded' = [seeded EXCEPT ![p] = NoneSeeded]
    /\ UNCHANGED <<category, author, article, comment, idx, completed, response>>

not_existing_authors_coupled == category = <<>>

no_articles_always == TRUE

\* if not existing_categories
not_existing_categories == category = <<>>

\* if not existing_authors
not_existing_authors == author = <<>>

\* if db["article"].count_documents({}) == 0
no_articles == Len(article) = 0

\* existing_categories = list(db["category"].find({})); if not existing_categories
seed_categories_check(p) ==
    /\ pc[p] = "cat_find"
    /\ seen' = [seen EXCEPT ![p]["category"] = Emptiness(category)]
    /\ IF not_existing_categories
       THEN pc' = [pc EXCEPT ![p] = "cat_insert"] /\ idx' = [idx EXCEPT ![p] = 1]
       ELSE pc' = [pc EXCEPT ![p] = "auth_find"] /\ idx' = idx
    /\ UNCHANGED <<category, author, article, comment, seeded, completed, response>>

\* for c in defaults: create_document("category", c)   (one iteration)
seed_categories_insert(p) ==
    /\ pc[p] = "cat_insert"
    /\ category' = create_document(category, DefaultCategories[idx[p]])
    /\ seeded' = [seeded EXCEPT ![p]["category"] = @ + 1]
    /\ IF idx[p] < Len(DefaultCategories)
       THEN idx' = [idx EXCEPT ![p] = @ + 1] /\ pc' = pc
       ELSE idx' = [idx EXCEPT ![p] = 0] /\ pc' = [pc EXCEPT ![p] = "auth_find"]
    /\ UNCHANGED <<author, article, comment, seen, completed, response>>

\* existing_authors = list(db["author"].find({})); if not existing_authors
seed_author_check(p) ==
    /\ pc[p] = "auth_find"
    /\ seen' = [seen EXCEPT ![p]["author"] = Emptiness(author)]
    /\ pc' = [pc EXCEPT ![p] =
                IF not_existing_authors THEN "auth_insert" ELSE "art_count"]
    /\ UNCHANGED <<category, author, article, comment, idx, seeded, completed, response>>

\* create_document("author", {...})
seed_author_insert(p) ==
    /\ pc[p] = "auth_insert"
    /\ author' = create_document(author, DefaultAuthor)
    /\ seeded' = [seeded EXCEPT ![p]["author"] = @ + 1]
    /\ pc' = [pc EXCEPT ![p] = "art_count"]
    /\ UNCHANGED <<category, article, comment, idx, seen, completed, response>>

\* if db["article"].count_documents({}) == 0
seed_article_check(p) ==
    /\ pc[p] = "art_count"
    /\ seen' = [seen EXCEPT ![p]["article"] = Emptiness(article)]
    /\ pc' = [pc EXCEPT ![p] = IF no_articles THEN "art_insert" ELSE "return"]
    /\ UNCHANGED <<category, author, article, comment, idx, seeded, completed, response>>

\* create_document("article", {...sample...})
seed_article_insert(p) ==
    /\ pc[p] = "art_insert"
    /\ article' = create_document(article, SampleArticle)
    /\ seeded' = [seeded EXCEPT ![p]["article"] = @ + 1]
    /\ pc' = [pc EXCEPT ![p] = "return"]
    /\ UNCHANGED <<category, author, comment, idx, seen, completed, response>>

\* return {"status": "ok"}
bootstrap_return(p) ==
    /\ pc[p] = "return"
    /\ pc' = [pc EXCEPT ![p] = "idle"]
    /\ seen' = [seen EXCEPT ![p] = Unchecked]
    /\ seeded' = [seeded EXCEPT ![p] = NoneSeeded]
    /\ completed' = Min(completed + 1, 2)
    /\ response' = [op |-> "bootstrap", arg |-> None, status |-> 200, body |-> "ok"]
    /\ UNCHANGED <<category, author, article, comment, idx>>

\* the request dies between two store calls (a store error, a killed worker):
\* nothing is rolled back and no response is produced
bootstrap_crash(p) ==
    /\ pc[p] \notin {"idle", "return"}
    /\ pc' = [pc EXCEPT ![p] = "idle"]
    /\ idx' = [idx EXCEPT ![p] = 0]
    /\ seen' = [seen EXCEPT ![p] = Unchecked]
    /\ seeded' = [seeded EXCEPT ![p] = NoneSeeded]
    /\ UNCHANGED <<category, author, article, comment, completed, response>>

\* ----------------------------------------------------------------- articles
\* a query parameter, or its declared default when the request omits it
Param(query, name, default) ==
    IF name \in DOMAIN query THEN query[name] ELSE default

\* Python truthiness of an Optional[str]
Truthy(v) == v # None /\ v # ""

filter_q_any_published(cat) ==
    IF Truthy(cat) THEN [category |-> cat] ELSE <<>>

\* filter_q = {"published": True}; if category: filter_q["category"] = category
filter_q(cat) ==
    IF Truthy(cat) THEN [published |-> TRUE, category |-> cat]
    ELSE [published |-> TRUE]

ArticlesOf_reversed(items) ==
    [k \in 1..Len(items) |-> Article(StripId(items[Len(items) + 1 - k]))]

\* [Article(**{k: v for k, v in item.items() if k != "_id"}) for item in items]
ArticlesOf(items) == [k \in 1..Len(items) |-> Article(StripId(items[k]))]

AllArticlesValid(items) ==
    \A k \in 1..Len(items) : ArticleValid(StripId(items[k]))

\* GET /api/articles?category=&limit=
list_articles(query) ==
    LET cat == Param(query, "category", None)
        limit == Param(query, "limit", DefaultLimit)
        items == get_documents(article, filter_q(cat), limit)
    IN /\ response' =
            IF AllArticlesValid(items)
            THEN [op |-> "list_articles", arg |-> query, status |-> 200,
                  body |-> ArticlesOf(items)]
            ELSE [op |-> "list_articles", arg |-> query, status |-> 500,
                  body |-> <<>>]
       /\ UNCHANGED <<category, author, article, comment,
                      pc, idx, seen, seeded, completed>>

\* GET /api/articles/{slug}
get_article(slug) ==
    LET items == get_documents(article, [slug |-> slug], 1)
    IN /\ response' =
            IF items = <<>>
            THEN [op |-> "get_article", arg |-> slug, status |-> 404, body |-> <<>>]
            ELSE IF ArticleValid(StripId(items[1]))
                 THEN [op |-> "get_article", arg |-> slug, status |-> 200,
                       body |-> Article(StripId(items[1]))]
                 ELSE [op |-> "get_article", arg |-> slug, status |-> 500,
                       body |-> <<>>]
       /\ UNCHANGED <<category, author, article, comment,
                      pc, idx, seen, seeded, completed>>

\* data = payload.model_dump(); data.update({slug, published, view_count})
ArticleData(payload) ==
    [slug |-> Slugify(payload.title), published |-> TRUE, view_count |-> 0]
    @@ ArticleCreateDump(payload)

\* POST /api/articles
create_article(payload) ==
    IF ~ArticleCreateValid(payload)
    THEN /\ response' = [op |-> "create_article", arg |-> payload,
                         status |-> 422, body |-> <<>>]
         /\ UNCHANGED <<category, author, article, comment,
                        pc, idx, seen, seeded, completed>>
    ELSE LET data == ArticleData(payload)
         IN /\ article' = create_document(article, data)
            /\ response' =
                 IF ArticleValid(data)
                 THEN [op |-> "create_article", arg |-> payload,
                       status |-> 200, body |-> Article(data)]
                 ELSE [op |-> "create_article", arg |-> payload,
                       status |-> 500, body |-> <<>>]
            /\ UNCHANGED <<category, author, comment,
                           pc, idx, seen, seeded, completed>>

\* ----------------------------------------------------------------- comments
comments_filter_all(article_slug) == <<>>

\* {"article_slug": article_slug}
comments_filter(article_slug) == [article_slug |-> article_slug]

\* [Comment(**{k: v for k, v in item.items() if k != "_id"}) for item in items]
CommentsOf(items) == [k \in 1..Len(items) |-> Comment(StripId(items[k]))]

\* POST /api/comments
post_comment(payload) ==
    IF ~CommentCreateValid(payload)
    THEN /\ response' = [op |-> "post_comment", arg |-> payload,
                         status |-> 422, body |-> <<>>]
         /\ UNCHANGED <<category, author, article, comment,
                        pc, idx, seen, seeded, completed>>
    ELSE /\ comment' = create_document(comment, CommentCreateDump(payload))
         /\ response' = [op |-> "post_comment", arg |-> payload,
                         status |-> 200, body |-> "ok"]
         /\ UNCHANGED <<category, author, article,
                        pc, idx, seen, seeded, completed>>

\* GET /api/comments/{article_slug}
list_comments(article_slug) ==
    LET items == find(comment, comments_filter(article_slug))
    IN /\ response' =
            IF \A k \in 1..Len(items) : CommentValid(StripId(items[k]))
            THEN [op |-> "list_comments", arg |-> article_slug,
                  status |-> 200, body |-> CommentsOf(items)]
            ELSE [op |-> "list_comments", arg |-> article_slug,
                  status |-> 500, body |-> <<>>]
       /\ UNCHANGED <<category, author, article, comment,
                      pc, idx, seen, seeded, completed>>

\* ------------------------------------------------------------ request inputs
Titles == { <<"H", "i">>, <<" ", "H", "i">>, <<"H", " ", " ", "i">> }

AllTitles == UNION { [1..n -> Alphabet] : n \in 0..MaxTitleLen }

Categories == {"technology", "world"}

CoverImages == {None, "https://example.com/a.png", "not a url"}

PayloadsOver(titles) ==
    [title : titles, category : Categories, cover_image : CoverImages]
    \cup [category : Categories, cover_image : {None}]

Limits == 0..MaxLimit

QueryCategories == {"", "technology"}

Queries ==
    [category : QueryCategories, limit : Limits]
    \cup [category : QueryCategories]
    \cup [limit : Limits]
    \cup { <<>> }

Slugs == { <<"h", "i">>, <<"h", "-", "i">>, <<"n", "o">> }

CommentPayloads ==
    [article_slug : {<<"h", "i">>, <<"n", "o">>}, name : {"ann"},
     message : {"", "nice"}]
    \cup [article_slug : {<<"h", "i">>}, name : {"ann"}]

\* an article left unpublished in the database by another writer
Draft ==
    [title |-> <<"H", "i">>, slug |-> <<"h", "i">>, category |-> "technology",
     cover_image |-> None, published |-> FALSE, view_count |-> 0]

\* article collections the service can start on: empty, a bootstrapped one,
\* one holding an unpublished document
InitialArticles ==
    { <<>>, create_document(<<>>, SampleArticle), create_document(<<>>, Draft) }

AllIdle == \A p \in Procs : pc[p] = "idle"

\* ------------------------------------------------------------ specifications
\* concurrent requests: bootstrap's store calls interleave with other requests
BootPayload ==
    [title |-> <<"H", "i">>, category |-> "technology", cover_image |-> None]

BootstrapStep(p) ==
    \/ bootstrap_defaults(p)
    \/ seed_categories_check(p)
    \/ seed_categories_insert(p)
    \/ seed_author_check(p)
    \/ seed_author_insert(p)
    \/ seed_article_check(p)
    \/ seed_article_insert(p)
    \/ bootstrap_return(p)

Next ==
    \/ \E p \in Procs : BootstrapStep(p)
    \/ \E p \in Procs : bootstrap_crash(p)
    \/ Len(article) < MaxArticles /\ create_article(BootPayload)

Spec == Init /\ [][Next]_vars

\* requests handled one after the other, each to completion
NextSeq ==
    \/ \E p \in Procs :
          /\ \A q \in Procs \ {p} : pc[q] = "idle"
          /\ BootstrapStep(p)
    \/ AllIdle /\ Len(article) < MaxArticles /\ create_article(BootPayload)

SpecSeq == Init /\ [][NextSeq]_vars

\* the article handlers (each makes one store call)
InitArticles ==
    /\ category = <<>>
    /\ author = <<>>
    /\ comment = <<>>
    /\ article \in InitialArticles
    /\ Idle

NextArticles ==
    \/ Len(article) < MaxArticles /\ \E payload \in PayloadsOver(Titles) : create_article(payload)
    \/ \E query \in Queries : list_articles(query)
    \/ \E slug \in Slugs : get_article(slug)

SpecArticles == InitArticles /\ [][NextArticles]_vars

\* slug derivation over every title up to MaxTitleLen characters
NextSlug ==
    article = <<>> /\ \E payload \in PayloadsOver(AllTitles) : create_article(payload)

SpecSlug == Init /\ [][NextSlug]_vars

\* the comment handlers (each makes one store call)
NextComments ==
    \/ Len(comment) < MaxComments /\ \E payload \in CommentPayloads : post_comment(payload)
    \/ \E article_slug \in Slugs : list_comments(article_slug)

SpecComments == InitArticles /\ [][NextComments]_vars

\* requests handled one after the other; a bootstrap may die between two of
\* its store calls and be invoked again
NextCrash ==
    \/ \E p \in Procs :
          /\ \A q \in Procs \ {p} : pc[q] = "idle"
          /\ BootstrapStep(p)
    \/ \E p \in Procs : bootstrap_crash(p)
    \/ AllIdle /\ Len(article) < MaxArticles /\ create_article(BootPayload)

SpecCrash == Init /\ [][NextCrash]_vars

\* ===================================================================== claims
Last(s) == s[Len(s)]

Reverse(s) == [k \in 1..Len(s) |-> s[Len(s) + 1 - k]]

CategoryDocs == [k \in 1..Len(category) |-> StripId(category[k])]

\* ------------------------------------------------------------------------ C1
Bootstrapped ==
    /\ CategoryDocs = DefaultCategories
    /\ Len(author) = 1
    /\ Len(article) >= 1

\* C1: from an empty store, once a bootstrap call has run to completion (calls
\* run one after the other), the store holds exactly the 5 default categories,
\* exactly 1 author and at least 1 article, and no step of any later bootstrap
\* call changes the category, author or article collection.
C1_BootstrapIdempotent ==
    /\ [](completed >= 1 => Bootstrapped)
    /\ [][(completed >= 1 /\ pc' # pc) =>
             UNCHANGED <<category, author, article>>]_vars

C1_TwoCallsDone ==
    /\ completed = 2
    /\ AllIdle
    /\ Len(category) = 5
    /\ Len(author) = 1

\* ------------------------------------------------------------------------ C2
PastSeeding(p, g) ==
    IF g = "category"
    THEN pc[p] \in {"auth_find", "auth_insert", "art_count", "art_insert", "return"}
    ELSE IF g = "author"
    THEN pc[p] \in {"art_count", "art_insert", "return"}
    ELSE pc[p] = "return"

\* C2: a bootstrap call seeds a group if and only if it found that group's
\* collection empty at its check: it inserts nothing into a group it found
\* non-empty, inserts all the group's defaults into one it found empty,
\* whatever it found for the other two groups, and ends with no group empty.
C2_IndependentSeeding ==
    \A p \in Procs :
       /\ \A g \in Groups :
             /\ seen[p][g] # "empty" => seeded[p][g] = 0
             /\ (seen[p][g] = "empty" /\ PastSeeding(p, g)) =>
                   seeded[p][g] = NDefaults(g)
       /\ pc[p] = "return" =>
             category # <<>> /\ author # <<>> /\ article # <<>>

\* a re-run over the leftovers of a crashed call: categories partly seeded,
\* left alone; author and article found empty and seeded
C2_RerunAfterCrash ==
    \E p \in Procs :
       /\ pc[p] = "return"
       /\ seen[p] = [category |-> "nonempty", author |-> "empty", article |-> "empty"]
       /\ seeded[p] = [category |-> 0, author |-> 1, article |-> 1]
       /\ Len(category) < Len(DefaultCategories)
       /\ Len(author) = 1

\* ------------------------------------------------------------------------ C3
\* C3: no two documents of the category collection share a slug, in every
\* interleaving of concurrently handled requests.
C3_UniqueCategorySlugs ==
    \A i, j \in 1..Len(category) :
       i # j => category[i].slug # category[j].slug

\* ------------------------------------------------------------------------ C4
IsList == response.op = "list_articles"

ListLimit == Param(response.arg, "limit", DefaultLimit)

FromStore(a) == \E i \in 1..Len(article) : Article(StripId(article[i])) = a

ListMatching ==
    LET cat == Param(response.arg, "category", None)
    IN SelectSeq(article,
                 LAMBDA d : d.published = TRUE /\ (Truthy(cat) => d.category = cat))

Shows(body, docs) ==
    /\ Len(body) = Len(docs)
    /\ \A k \in 1..Len(docs) : body[k] = Article(StripId(docs[k]))

\* C5 as claimed: the list is newest first, and truncation keeps the most
\* recently inserted matching articles.
C5_NewestFirst ==
    (IsList /\ response.status = 200) =>
       Shows(response.body, Take(Reverse(ListMatching), ListLimit))

\* C5: the list is in the store's insertion order, oldest first, and truncation
\* keeps the earliest inserted matching articles.
C5_StoreOrder ==
    (IsList /\ response.status = 200) =>
       Shows(response.body, Take(ListMatching, ListLimit))

C5_TruncatedToOldest ==
    /\ IsList
    /\ response.status = 200
    /\ Len(ListMatching) = 2
    /\ ListMatching[1].title # ListMatching[2].title
    /\ ListLimit = 1
    /\ response.body[1].title = ListMatching[1].title

\* ------------------------------------------------------------------------ C6
WithSlug(slug) == SelectSeq(article, LAMBDA d : d.slug = slug)

\* C6: get_article answers 404 exactly when no article has the slug, and
\* otherwise returns the first stored article with that slug.
C6_GetArticle ==
    response.op = "get_article" =>
       LET m == WithSlug(response.arg)
       IN /\ response.status = 404 <=> m = <<>>
          /\ m # <<>> =>
                /\ response.status = 200
                /\ response.body = Article(StripId(m[1]))

\* ------------------------------------------------------------------------ C7
RECURSIVE CollapseRuns(_)
\* every maximal run of whitespace replaced by one hyphen
CollapseRuns(s) ==
    IF s = <<>> THEN <<>>
    ELSE IF Head(s) \in Whitespace
         THEN IF Len(s) > 1 /\ s[2] \in Whitespace
              THEN CollapseRuns(Tail(s))
              ELSE <<"-">> \o CollapseRuns(Tail(s))
         ELSE <<Head(s)>> \o CollapseRuns(Tail(s))

RECURSIVE LStrip(_)
LStrip(s) ==
    IF s # <<>> /\ Head(s) \in Whitespace THEN LStrip(Tail(s)) ELSE s

Strip(s) == Reverse(LStrip(Reverse(LStrip(s))))

Created == response.op = "create_article" /\ response.status # 422

CreatedAsDeclared(slug) ==
    /\ Last(article).slug = slug
    /\ Last(article).title = response.arg.title
    /\ Last(article).published = TRUE
    /\ Last(article).view_count = 0
    /\ response.status = 200 =>
          /\ response.body.slug = slug
          /\ response.body.published = TRUE
          /\ response.body.view_count = 0

\* C7 as claimed: the stored slug is the lower-cased title with every run of
\* whitespace, leading and trailing runs included, collapsed to one hyphen.
C7_SlugCollapsesEveryRun ==
    Created => CreatedAsDeclared(CollapseRuns(lower(response.arg.title)))

\* C7: the slug create_article stores (and returns, when it returns the
\* article) is the lower-cased title with leading and trailing whitespace
\* removed and every remaining run of whitespace collapsed to one hyphen; the
\* created article has published = true and view_count = 0.
C7_SlugOfTitle ==
    Created => CreatedAsDeclared(CollapseRuns(Strip(lower(response.arg.title))))

C7_LeadingAndInnerWhitespace ==
    /\ Created
    /\ response.arg.title = <<" ", "H", " ", "i">>
    /\ Last(article).slug = <<"h", "-", "i">>

\* ------------------------------------------------------------------------ C8
\* C8: every stored article passes Article validation, so no list_articles or
\* get_article request ends in a validation failure.
C8_ValidatedBeforeWrite ==
    /\ \A i \in 1..Len(article) : ArticleValid(StripId(article[i]))
    /\ response.op \in {"list_articles", "get_article"} => response.status # 500

\* ------------------------------------------------------------------------ C9
CommentsFor(article_slug) ==
    SelectSeq(comment, LAMBDA d : d.article_slug = article_slug)

IsPost == response.op = "post_comment"

\* C10 as claimed: a comment whose message is the empty string is rejected and
\* never stored.
C10_EmptyMessageRejected ==
    /\ (IsPost /\ "message" \in DOMAIN response.arg /\ response.arg.message = "") =>
          response.status = 422
    /\ \A i \in 1..Len(comment) : comment[i].message # ""

\* C10: post_comment is rejected with ValidationError, adding no document,
\* exactly when a required field (such as message) is missing; a message that
\* is the empty string passes validation and the comment is stored.
C10_MissingMessageRejected ==
    /\ [](IsPost =>
            /\ response.status = 422 <=> ~(CommentRequired \subseteq DOMAIN response.arg)
            /\ response.status = 200 => Last(comment).message = response.arg.message)
    /\ [][(response' # response /\ response'.op = "post_comment"
             /\ response'.status = 422) => comment' = comment]_vars

C10_EmptyMessageStored ==
    /\ IsPost
    /\ response.status = 200
    /\ response.arg.message = ""
    /\ Last(comment).message = ""

====
